---- MODULE Spec2Model ----
(***************************************************************************)
(* Text analysis core of the study-notes application: substring search     *)
(* with snippets, highlighting and page attribution (utils/search_utils),  *)
(* extractive summarisation and keyword extraction (utils/summarizer),     *)
(* and the request handlers of the web application with its session (app). *)
(*                                                                         *)
(* A Python str is a sequence of one-character strings.  Offsets keep the  *)
(* source's 0-based convention: offset p is element p + 1 of the sequence. *)
(***************************************************************************)
EXTENDS Integers, Sequences, FiniteSets, TLC

VARIABLES
    pc,             \* position of the running call
    text,           \* the text argument
    query,          \* search_in_text: query
    context_chars,  \* search_in_text: context_chars
    position,       \* search_in_text: position (where the next find starts)
    results,        \* search_in_text: results
    match_count,    \* search_in_text: match_count
    num_sentences,  \* generate_summary: num_sentences
    sentences,      \* generate_summary: sentences
    sentence_scores,\* generate_summary: sentence_scores
    top_n,          \* extract_keywords: top_n
    terms,          \* search_with_operators: terms
    term_index,     \* search_with_operators: how many terms the for loop has taken
    op_results,     \* search_with_operators: results / combined_results
    session,        \* app: the Flask session, a mapping from its keys to values
    uploads,        \* app: the files in UPLOAD_FOLDER, path -> content
    flashed,        \* app: the messages the last request flashed
    response,       \* app: what the last request returned
    ret             \* the value returned by the call

searchVars == <<query, context_chars, position, results, match_count>>

summaryVars == <<num_sentences, sentences, sentence_scores>>

operatorVars == <<terms, term_index, op_results>>

appVars == <<session, uploads, flashed, response>>

vars == <<pc, text, searchVars, summaryVars, top_n, operatorVars, appVars, ret>>

----------------------------------------------------------------------------
(* Bounds of the checked input space *)

MaxTextLen == 4

MaxQueryLen == 2

MaxContext == 2

MaxChunks == 3

MaxParts == 4

MaxNumSentences == 2

MaxWords == 4

MaxTopN == 2

MaxOperatorParts == 4

----------------------------------------------------------------------------
(* Characters and Python string primitives *)

UpperLetters ==
    <<"A","B","C","D","E","F","G","H","I","J","K","L","M",
      "N","O","P","Q","R","S","T","U","V","W","X","Y","Z">>

LowerLetters ==
    <<"a","b","c","d","e","f","g","h","i","j","k","l","m",
      "n","o","p","q","r","s","t","u","v","w","x","y","z">>

UpperSet == {UpperLetters[i] : i \in 1..26}

LowerSet == {LowerLetters[i] : i \in 1..26}

Digits == <<"0","1","2","3","4","5","6","7","8","9">>

DigitSet == {Digits[i] : i \in 1..10}

IsAlpha(c) == c \in UpperSet \cup LowerSet

IsDigit(c) == c \in DigitSet

IsSpace(c) == c \in {" ", "\n", "\t", "\r"}

\* \w of the re module on the ASCII range
IsWordChar(c) == IsAlpha(c) \/ IsDigit(c) \/ c = "_"

Min(a, b) == IF a <= b THEN a ELSE b

Max(a, b) == IF a >= b THEN a ELSE b

MinOf(S) == CHOOSE x \in S : \A y \in S : x <= y

MaxOf(S) == CHOOSE x \in S : \A y \in S : x >= y

\* str.lower() on one ASCII character
LowerChar(c) ==
    IF c \in UpperSet
    THEN LowerLetters[CHOOSE i \in 1..26 : UpperLetters[i] = c]
    ELSE c

\* str.lower()
ToLower(s) == [i \in 1..Len(s) |-> LowerChar(s[i])]

\* s[a:b] for 0 <= a
Slice(s, a, b) == SubSeq(s, a + 1, Min(b, Len(s)))

\* s.startswith(lit, i)
StartsWithAt(s, i, lit) ==
    /\ i + Len(lit) <= Len(s)
    /\ SubSeq(s, i + 1, i + Len(lit)) = lit

\* str.find(needle, start): lowest offset >= start, or -1
Find(hay, needle, start) ==
    LET cand == {i \in start..(Len(hay) - Len(needle)) : StartsWithAt(hay, i, needle)}
    IN  IF cand = {} THEN -1 ELSE MinOf(cand)

\* s.count(c) for a single character c
CountChar(s, c) == Cardinality({i \in 1..Len(s) : s[i] = c})

RECURSIVE DecimalValue(_)
\* int(ds) for a run of ASCII digits
DecimalValue(ds) ==
    IF ds = <<>> THEN 0
    ELSE 10 * DecimalValue(SubSeq(ds, 1, Len(ds) - 1))
         + ((CHOOSE i \in 1..10 : Digits[i] = ds[Len(ds)]) - 1)

RECURSIVE SkipSpaces(_, _)
\* end offset of a greedy \s* started at offset i
SkipSpaces(s, i) ==
    IF i < Len(s) /\ IsSpace(s[i + 1]) THEN SkipSpaces(s, i + 1) ELSE i

RECURSIVE SkipDigits(_, _)
\* end offset of a greedy \d* started at offset i
SkipDigits(s, i) ==
    IF i < Len(s) /\ IsDigit(s[i + 1]) THEN SkipDigits(s, i + 1) ELSE i

----------------------------------------------------------------------------
(* utils/search_utils.py *)

Ellipsis == <<".", ".", ".">>

MarkOpen == <<"<", "m", "a", "r", "k", ">">>

MarkClose == <<"<", "/", "m", "a", "r", "k", ">">>

Dashes == <<"-", "-", "-">>

WordPage == <<"P", "a", "g", "e">>

WordSlide == <<"S", "l", "i", "d", "e">>

\* Python's None for page_number (page numbers themselves are >= 0)
None == -1

PageWindow == 500

NoMatch == [end |-> -1, num |-> <<>>]

\* pattern.match at offset i of r'---\s*(?:Page|Slide)\s+(\d+)\s*---': the
\* character classes that meet are disjoint, so the greedy run is the only
\* way to match and no backtracking changes the outcome.
MarkerWordMatchAt(w, b, word) == StartsWithAt(w, b, word)

MarkerMatchAt(w, i) ==
    LET b == SkipSpaces(w, i + 3)
        c == IF MarkerWordMatchAt(w, b, WordPage) THEN b + 4
             ELSE IF MarkerWordMatchAt(w, b, WordSlide) THEN b + 5
             ELSE -1
        d == SkipSpaces(w, c)
        e == SkipDigits(w, d)
        f == SkipSpaces(w, e)
    IN  IF /\ StartsWithAt(w, i, Dashes)
           /\ c # -1
           /\ d > c
           /\ e > d
           /\ StartsWithAt(w, f, Dashes)
        THEN [end |-> f + 3, num |-> SubSeq(w, d + 1, e)]
        ELSE NoMatch

RECURSIVE MarkerFindAll(_, _)
\* re.findall: the groups of the non-overlapping matches, scanning from
\* offset i.  A match can only start at a '---', so the scan steps from one
\* '---' to the next.
MarkerFindAll(w, i) ==
    LET j == Find(w, Dashes, i)
    IN  IF j = -1 THEN <<>>
        ELSE LET m == MarkerMatchAt(w, j)
             IN  IF m # NoMatch
                 THEN <<m.num>> \o MarkerFindAll(w, m.end)
                 ELSE MarkerFindAll(w, j + 1)

\* mutation: the window reaches back to the start of the text
PageWindowStartUnbounded(pos) == 0

PageWindowStart(pos) == Max(0, pos - PageWindow)

extract_page_number(t, pos) ==
    LET search_text == Slice(t, PageWindowStart(pos), pos)
        page_match  == MarkerFindAll(search_text, 0)
    IN  IF page_match # <<>>
        THEN DecimalValue(page_match[Len(page_match)])
        ELSE None

\* mutation: the pattern is compiled without re.IGNORECASE
HighlightSearchExactCase(s, q, i) == Find(s, q, i)

\* offset of the next re.IGNORECASE match of the escaped (literal) query
\* at or after offset i, or -1
HighlightSearch(s, q, i) == Find(ToLower(s), ToLower(q), i)

RECURSIVE HighlightFrom(_, _, _)
\* pattern.sub over the non-overlapping matches from offset i on: the text up
\* to the next match is copied, the match is wrapped, and the scan resumes
\* behind it; an empty pattern matches (emptily) at every offset, and the
\* scan then moves on by one character
HighlightFrom(s, q, i) ==
    LET j == HighlightSearch(s, q, i)
    IN  IF j = -1 THEN SubSeq(s, i + 1, Len(s))
        ELSE SubSeq(s, i + 1, j)
             \o MarkOpen \o SubSeq(s, j + 1, j + Len(q)) \o MarkClose
             \o (IF Len(q) = 0
                 THEN Slice(s, j, j + 1) \o HighlightFrom(s, q, j + 1)
                 ELSE HighlightFrom(s, q, j + Len(q)))

highlight_text(s, q) == HighlightFrom(s, q, 0)

SnippetStart(pos, ctx) == Max(0, pos - ctx)

SnippetEnd(t, pos, q, ctx) == Min(Len(t), pos + Len(q) + ctx)

\* mutation: the comparison admits a window that starts at offset 0
LeftEllipsisFromZero(start) == start >= 0

LeftEllipsis(start) == start > 0

RightEllipsis(t, end) == end < Len(t)

\* the local snippet before it is highlighted
Snippet(t, pos, q, ctx) ==
    LET start == SnippetStart(pos, ctx)
        end   == SnippetEnd(t, pos, q, ctx)
    IN  (IF LeftEllipsis(start) THEN Ellipsis ELSE <<>>)
        \o Slice(t, start, end)
        \o (IF RightEllipsis(t, end) THEN Ellipsis ELSE <<>>)

\* mutation: the scan resumes behind the whole match
NextPositionPastMatch(pos, q) == pos + Max(1, Len(q))

\* where the scan resumes after a match at pos
NextPosition(pos, q) == pos + 1

\* one result entry; raw_snippet is the local snippet of that iteration
\* before highlight_text is applied to it
MatchEntry(t, pos, q, ctx) ==
    [line_number   |-> CountChar(Slice(t, 0, pos), "\n") + 1,
     page_number   |-> extract_page_number(t, pos),
     raw_snippet   |-> Snippet(t, pos, q, ctx),
     snippet       |-> highlight_text(Snippet(t, pos, q, ctx), q),
     position      |-> pos]

NoReturn == [kind |-> "none"]

\* no call of search_with_operators is running
NoOperatorCall ==
    /\ terms = <<>>
    /\ term_index = 0
    /\ op_results = <<>>

NoResponse == [kind |-> "none"]

\* the web application is not running
NoAppRequest ==
    /\ session = <<>>
    /\ uploads = <<>>
    /\ flashed = <<>>
    /\ response = NoResponse

\* one iteration of the while loop that finds an occurrence
SearchFound ==
    /\ pc = "search_loop"
    /\ LET pos == Find(ToLower(text), ToLower(query), position)
       IN  /\ pos # -1
           /\ match_count' = match_count + 1
           /\ results' = Append(results, MatchEntry(text, pos, query, context_chars))
           /\ position' = NextPosition(pos, query)
    /\ UNCHANGED <<appVars, operatorVars, pc, text, query, context_chars, ret, summaryVars, top_n>>

\* the iteration that finds nothing: break, and the return statement
SearchReturn ==
    /\ pc = "search_loop"
    /\ Find(ToLower(text), ToLower(query), position) = -1
    /\ ret' = [kind |-> "search", matches |-> results, count |-> match_count,
               query |-> query]
    /\ pc' = "done"
    /\ UNCHANGED <<appVars, operatorVars, text, searchVars, summaryVars, top_n>>

----------------------------------------------------------------------------
(* utils/summarizer.py *)

get_stop_words ==
    {<<"t","h","e">>, <<"a">>, <<"a","n">>, <<"a","n","d">>, <<"o","r">>,
     <<"b","u","t">>, <<"i","n">>, <<"o","n">>, <<"a","t">>, <<"t","o">>,
     <<"f","o","r">>, <<"o","f">>, <<"w","i","t","h">>, <<"b","y">>,
     <<"f","r","o","m">>, <<"a","s">>, <<"i","s">>, <<"w","a","s">>,
     <<"a","r","e">>, <<"w","e","r","e">>, <<"b","e">>, <<"b","e","e","n">>,
     <<"b","e","i","n","g">>, <<"h","a","v","e">>, <<"h","a","s">>,
     <<"h","a","d">>, <<"d","o">>, <<"d","o","e","s">>, <<"d","i","d">>,
     <<"w","i","l","l">>, <<"w","o","u","l","d">>, <<"c","o","u","l","d">>,
     <<"s","h","o","u","l","d">>, <<"m","a","y">>, <<"m","i","g","h","t">>,
     <<"c","a","n">>, <<"t","h","i","s">>, <<"t","h","a","t">>,
     <<"t","h","e","s","e">>, <<"t","h","o","s","e">>, <<"i">>,
     <<"y","o","u">>, <<"h","e">>, <<"s","h","e">>, <<"i","t">>, <<"w","e">>,
     <<"t","h","e","y">>, <<"t","h","e","m">>, <<"t","h","e","i","r">>,
     <<"w","h","a","t">>, <<"w","h","i","c","h">>, <<"w","h","o">>,
     <<"w","h","e","n">>, <<"w","h","e","r","e">>, <<"w","h","y">>,
     <<"h","o","w">>, <<"a","l","l">>, <<"e","a","c","h">>,
     <<"e","v","e","r","y">>, <<"b","o","t","h">>, <<"f","e","w">>,
     <<"m","o","r","e">>, <<"m","o","s","t">>, <<"o","t","h","e","r">>,
     <<"s","o","m","e">>, <<"s","u","c","h">>, <<"n","o">>, <<"n","o","r">>,
     <<"n","o","t">>, <<"o","n","l","y">>, <<"o","w","n">>,
     <<"s","a","m","e">>, <<"s","o">>, <<"t","h","a","n">>, <<"t","o","o">>,
     <<"v","e","r","y">>, <<"j","u","s","t">>, <<"a","l","s","o">>,
     <<"i","n","t","o">>, <<"t","h","r","o","u","g","h">>,
     <<"d","u","r","i","n","g">>, <<"b","e","f","o","r","e">>,
     <<"a","f","t","e","r">>, <<"a","b","o","v","e">>,
     <<"b","e","l","o","w">>, <<"b","e","t","w","e","e","n">>,
     <<"u","n","d","e","r">>, <<"a","g","a","i","n">>,
     <<"f","u","r","t","h","e","r">>, <<"t","h","e","n">>,
     <<"o","n","c","e">>}

\* re.findall(r'\b[a-zA-Z]{3,}\b', s) from offset i on: a match starts and
\* ends at a word boundary, so it is a whole run of \w characters, made of
\* at least three letters and nothing else
RECURSIVE WordTokens(_, _)
WordTokens(s, i) ==
    LET starts == {j \in i..(Len(s) - 1) : IsWordChar(s[j + 1])}
    IN  IF starts = {} THEN <<>>
        ELSE LET j   == MinOf(starts)
                 k   == MinOf({e \in (j + 1)..Len(s) :
                                  e = Len(s) \/ ~IsWordChar(s[e + 1])})
                 run == SubSeq(s, j + 1, k)
             IN  (IF k - j >= 3 /\ \A x \in 1..Len(run) : IsAlpha(run[x])
                  THEN <<run>> ELSE <<>>)
                 \o WordTokens(s, k)

Tokenize(s) == WordTokens(ToLower(s), 0)

SentenceEnd == {".", "!", "?"}

RECURSIVE SplitPieces(_, _)
\* re.split(r'(?<=[.!?])\s+', s) from offset i on
SplitPieces(s, i) ==
    LET cuts == {j \in Max(i, 1)..(Len(s) - 1) :
                    s[j] \in SentenceEnd /\ IsSpace(s[j + 1])}
    IN  IF cuts = {} THEN <<SubSeq(s, i + 1, Len(s))>>
        ELSE <<SubSeq(s, i + 1, MinOf(cuts))>>
             \o SplitPieces(s, SkipSpaces(s, MinOf(cuts)))

\* str.strip()
Strip(s) ==
    LET keep == {j \in 1..Len(s) : ~IsSpace(s[j])}
    IN  IF keep = {} THEN <<>>
        ELSE SubSeq(s, MinOf(keep), CHOOSE x \in keep : \A y \in keep : x >= y)

MinSentenceLen == 15

KeepSentence(sent) ==
    Len(sent) > MinSentenceLen /\ ~StartsWithAt(sent, 0, Dashes)

RECURSIVE CleanPieces(_)
CleanPieces(ps) ==
    IF ps = <<>> THEN <<>>
    ELSE (IF KeepSentence(Strip(Head(ps))) THEN <<Strip(Head(ps))>> ELSE <<>>)
         \o CleanPieces(Tail(ps))

split_into_sentences(t) == CleanPieces(SplitPieces(t, 0))

SeqRange(s) == {s[i] : i \in 1..Len(s)}

RECURSIVE DistinctInOrder(_)
\* the keys of a dict or Counter filled from s: first occurrences, in order
DistinctInOrder(s) ==
    IF s = <<>> THEN <<>>
    ELSE LET init == DistinctInOrder(SubSeq(s, 1, Len(s) - 1))
             x    == s[Len(s)]
         IN  IF x \in SeqRange(init) THEN init ELSE Append(init, x)

\* Counter([w for w in words if w not in stop_words]): the keys in insertion
\* order and the count of each
WordCounter(t) ==
    LET words == Tokenize(t)
        kept  == SelectSeq(words, LAMBDA w : w \notin get_stop_words)
    IN  [keys  |-> DistinctInOrder(kept),
         count |-> [w \in SeqRange(kept) |->
                       Cardinality({i \in 1..Len(kept) : kept[i] = w})]]

\* calculate_word_frequency: word_freq[w] is count[w] / max_freq; the table
\* is held as the counts and max_freq, the quotient is not formed
calculate_word_frequency(t) ==
    LET wc == WordCounter(t)
    IN  [count    |-> wc.count,
         max_freq |-> IF wc.keys = <<>> THEN 1
                      ELSE CHOOSE m \in {wc.count[w] : w \in DOMAIN wc.count} :
                               \A w \in DOMAIN wc.count : wc.count[w] <= m]

ImportantMarkers ==
    {<<"i","m","p","o","r","t","a","n","t">>, <<"k","e","y">>,
     <<"d","e","f","i","n","i","t","i","o","n">>, <<"t","h","e","o","r","e","m">>,
     <<"f","o","r","m","u","l","a">>, <<"c","o","n","c","l","u","s","i","o","n">>,
     <<"s","u","m","m","a","r","y">>}

RECURSIVE SumCounts(_, _)
SumCounts(words, count) ==
    IF words = <<>> THEN 0
    ELSE (IF Head(words) \in DOMAIN count THEN count[Head(words)] ELSE 0)
         + SumCounts(Tail(words), count)

\* the bonus for a sentence near the beginning: i < len(sentences) * 0.2
NearBeginning(i, n) == 5 * i < n

\* the score of the sentence at index i (0-based).  The source's float is
\* base / max_freq times the factors 1.3, 1.4, 1.2, 0.5, 0.8 that apply; the
\* model holds the exact value of score * max_freq * 10^5, an integer, which
\* orders the sentences of one call as the exact scores do.
SentenceScore(sents, i, word_freq) ==
    LET sentence == sents[i + 1]
        words    == Tokenize(sentence)
        base     == SumCounts(words, word_freq.count)
        lead     == IF NearBeginning(i, Len(sents)) THEN 13 ELSE 10
        marker   == IF \E m \in ImportantMarkers : Find(ToLower(sentence), m, 0) # -1
                    THEN 14 ELSE 10
        number   == IF \E x \in 1..Len(sentence) : IsDigit(sentence[x])
                    THEN 12 ELSE 10
        short    == IF Len(words) < 5 THEN 5 ELSE 10
        long     == IF Len(words) > 40 THEN 8 ELSE 10
    IN  base * lead * marker * number * short * long

\* d[key] = value on a dict held as its items in insertion order
DictPut(d, key, value) ==
    IF \E k \in 1..Len(d) : d[k].sentence = key
    THEN [k \in 1..Len(d) |->
             IF d[k].sentence = key THEN [sentence |-> key, score |-> value] ELSE d[k]]
    ELSE Append(d, [sentence |-> key, score |-> value])

RECURSIVE ScoreLoop(_, _, _, _)
ScoreLoop(sents, word_freq, i, d) ==
    IF i >= Len(sents) THEN d
    ELSE ScoreLoop(sents, word_freq, i + 1,
                   DictPut(d, sents[i + 1], SentenceScore(sents, i, word_freq)))

score_sentences(sents, word_freq) == ScoreLoop(sents, word_freq, 0, <<>>)

RECURSIVE InsertDescending(_, _)
\* x put behind every element whose key is not less than its own
InsertDescending(sorted, x) ==
    IF sorted = <<>> THEN <<x>>
    ELSE IF Head(sorted).key >= x.key
         THEN <<Head(sorted)>> \o InsertDescending(Tail(sorted), x)
         ELSE <<x>> \o sorted

RECURSIVE SortDescending(_)
\* sorted(items, key=..., reverse=True) on [key, item] pairs: stable, equal
\* keys keep their order
SortDescending(pairs) ==
    IF pairs = <<>> THEN <<>>
    ELSE InsertDescending(SortDescending(SubSeq(pairs, 1, Len(pairs) - 1)),
                          pairs[Len(pairs)])

RECURSIVE InsertAscending(_, _)
InsertAscending(sorted, x) ==
    IF sorted = <<>> THEN <<x>>
    ELSE IF Head(sorted).key <= x.key
         THEN <<Head(sorted)>> \o InsertAscending(Tail(sorted), x)
         ELSE <<x>> \o sorted

RECURSIVE SortAscending(_)
\* sorted(items, key=...) on [key, item] pairs: stable
SortAscending(pairs) ==
    IF pairs = <<>> THEN <<>>
    ELSE InsertAscending(SortAscending(SubSeq(pairs, 1, Len(pairs) - 1)),
                         pairs[Len(pairs)])

ItemsOf(pairs) == [k \in 1..Len(pairs) |-> pairs[k].item]

\* s[:n] for n >= 0
Take(s, n) == SubSeq(s, 1, Min(n, Len(s)))

\* list.index(x), 0-based
IndexOf(s, x) == MinOf({i \in 1..Len(s) : s[i] = x}) - 1

RECURSIVE JoinSpace(_)
\* ' '.join(ss)
JoinSpace(ss) ==
    IF ss = <<>> THEN <<>>
    ELSE IF Len(ss) = 1 THEN ss[1]
    ELSE Head(ss) \o <<" ">> \o JoinSpace(Tail(ss))

\* the numbered lines of the report; its title and rule are constant text
format_summary_output(t) == split_into_sentences(t)

TopSentences(scores, n) ==
    Take(ItemsOf(SortDescending(
             [k \in 1..Len(scores) |-> [key |-> scores[k].score, item |-> scores[k]]])),
         n)

\* mutation: the selected sentences stay in rank order
KeepRankOrder(top, sents) == top

OriginalOrder(top, sents) ==
    ItemsOf(SortAscending(
        [k \in 1..Len(top) |-> [key  |-> IndexOf(sents, top[k].sentence),
                                item |-> top[k]]]))

SentencesOf(items) == [k \in 1..Len(items) |-> items[k].sentence]

\* mutation: the short text is rebuilt from its sentences
ShortSummaryJoined(t, sents) == JoinSpace(sents)

\* the text of the summary when nothing is left out
ShortSummaryText(t, sents) == t

NoSummaryCall ==
    /\ num_sentences = 0
    /\ sentences = <<>>
    /\ sentence_scores = <<>>

\* generate_summary, lines 11-18: the text has no more sentences than asked
GenerateSummaryShort ==
    /\ pc = "summary_split"
    /\ LET sents == split_into_sentences(text)
       IN  /\ Len(sents) <= num_sentences
           /\ sentences' = sents
           /\ ret' = [kind          |-> "summary",
                      text          |-> ShortSummaryText(text, sents),
                      formatted     |-> format_summary_output(text),
                      bullet_points |-> sents]
    /\ pc' = "done"
    /\ UNCHANGED <<appVars, operatorVars, text, searchVars, num_sentences, sentence_scores, top_n>>

\* generate_summary, lines 11-13: more sentences than asked
GenerateSummarySplit ==
    /\ pc = "summary_split"
    /\ LET sents == split_into_sentences(text)
       IN  /\ Len(sents) > num_sentences
           /\ sentences' = sents
    /\ pc' = "summary_score"
    /\ UNCHANGED <<appVars, operatorVars, text, searchVars, num_sentences, sentence_scores, top_n, ret>>

\* generate_summary, lines 20-24
GenerateSummaryScore ==
    /\ pc = "summary_score"
    /\ sentence_scores' = score_sentences(sentences, calculate_word_frequency(text))
    /\ pc' = "summary_select"
    /\ UNCHANGED <<appVars, operatorVars, text, searchVars, num_sentences, sentences, top_n, ret>>

\* generate_summary, lines 26-42
GenerateSummarySelect ==
    /\ pc = "summary_select"
    /\ LET top_sentences     == TopSentences(sentence_scores, num_sentences)
           summary_sentences == OriginalOrder(top_sentences, sentences)
           summary_text      == JoinSpace(SentencesOf(summary_sentences))
       IN  ret' = [kind          |-> "summary",
                   text          |-> summary_text,
                   formatted     |-> format_summary_output(summary_text),
                   bullet_points |-> SentencesOf(summary_sentences)]
    /\ pc' = "done"
    /\ UNCHANGED <<appVars, operatorVars, text, searchVars, summaryVars, top_n>>

\* mutation: words that occur once are kept
KeywordCountFromOne(count) == count >= 1

KeywordCount(count) == count > 1

\* Counter.most_common(n): the n items with the highest counts, equal counts
\* in insertion order
MostCommon(wc, n) ==
    Take(ItemsOf(SortDescending(
             [k \in 1..Len(wc.keys) |-> [key  |-> wc.count[wc.keys[k]],
                                         item |-> wc.keys[k]]])),
         n)

extract_keywords(t, n) ==
    LET wc       == WordCounter(t)
        keywords == SelectSeq(MostCommon(wc, n * 2),
                              LAMBDA w : KeywordCount(wc.count[w]))
    IN  Take(keywords, n)

ExtractKeywords ==
    /\ pc = "keywords"
    /\ ret' = [kind |-> "keywords", keywords |-> extract_keywords(text, top_n)]
    /\ pc' = "done"
    /\ UNCHANGED <<appVars, operatorVars, text, searchVars, summaryVars, top_n>>

----------------------------------------------------------------------------
(* utils/search_utils.py: search_in_text as one call, search_with_operators *)

\* context_chars when the caller passes none
DefaultContext == 150

RECURSIVE SearchMatchesFrom(_, _, _, _)
\* the matches the while loop of search_in_text collects from offset pos0 on
SearchMatchesFrom(t, q, ctx, pos0) ==
    LET pos == Find(ToLower(t), ToLower(q), pos0)
    IN  IF pos = -1 THEN <<>>
        ELSE <<MatchEntry(t, pos, q, ctx)>>
             \o SearchMatchesFrom(t, q, ctx, NextPosition(pos, q))

\* search_in_text(text, query, context_chars) as a whole call
search_in_text(t, q, ctx) ==
    LET found == SearchMatchesFrom(t, q, ctx, 0)
    IN  [kind |-> "search", matches |-> found, count |-> Len(found), query |-> q]

\* str.upper() on one ASCII character
UpperChar(c) ==
    IF c \in LowerSet
    THEN UpperLetters[CHOOSE i \in 1..26 : LowerLetters[i] = c]
    ELSE c

\* str.upper()
ToUpper(s) == [i \in 1..Len(s) |-> UpperChar(s[i])]

SpacedAnd == <<" ", "A", "N", "D", " ">>

SpacedOr == <<" ", "O", "R", " ">>

WordAnd == <<"a", "n", "d">>

WordOr == <<"o", "r">>

\* ' AND ' in query.upper()
HasAnd(q) == Find(ToUpper(q), SpacedAnd, 0) # -1

\* ' OR ' in query.upper()
HasOr(q) == Find(ToUpper(q), SpacedOr, 0) # -1

NoSeparator == [start |-> -1, end |-> -1]

\* the match of \s+word\s+ (IGNORECASE) that begins at offset i, if any
SeparatorAt(q, i, word) ==
    LET afterLeft  == SkipSpaces(q, i)
        afterWord  == afterLeft + Len(word)
        afterRight == SkipSpaces(q, afterWord)
    IN  IF /\ afterLeft > i
           /\ StartsWithAt(ToLower(q), afterLeft, word)
           /\ afterRight > afterWord
        THEN [start |-> i, end |-> afterRight]
        ELSE NoSeparator

\* the leftmost match of \s+word\s+ at or after offset from
NextSeparator(q, from, word) ==
    LET starts == {i \in from..(Len(q) - 1) : SeparatorAt(q, i, word) # NoSeparator}
    IN  IF starts = {} THEN NoSeparator ELSE SeparatorAt(q, MinOf(starts), word)

RECURSIVE RegexSplitFrom(_, _, _)
\* re.split(r'\s+word\s+', q, flags=re.IGNORECASE), the pieces from offset from on
RegexSplitFrom(q, from, word) ==
    LET sep == NextSeparator(q, from, word)
    IN  IF sep = NoSeparator THEN <<Slice(q, from, Len(q))>>
        ELSE <<Slice(q, from, sep.start)>> \o RegexSplitFrom(q, sep.end, word)

\* [t.strip() for t in re.split(...)]
SplitTerms(q, word) ==
    LET pieces == RegexSplitFrom(q, 0, word)
    IN  [k \in 1..Len(pieces) |-> Strip(pieces[k])]

\* mutation: matches at a position that is already there are left out
ExtendDistinct(combined, found) ==
    combined \o SelectSeq(found,
        LAMBDA m : \A k \in 1..Len(combined) : combined[k].position # m.position)

\* combined_results.extend(term_results['matches'])
ExtendMatches(combined, found) == combined \o found

\* the AND branch is entered: terms are split, results = []
OperatorsAnd ==
    /\ pc = "operators"
    /\ HasAnd(query)
    /\ terms' = SplitTerms(query, WordAnd)
    /\ term_index' = 0
    /\ op_results' = <<>>
    /\ pc' = "and_loop"
    /\ UNCHANGED <<appVars, text, searchVars, summaryVars, top_n, ret>>

\* one iteration of the AND loop: results.append(term_results)
AndTerm ==
    /\ pc = "and_loop"
    /\ term_index < Len(terms)
    /\ op_results' = Append(op_results,
                            search_in_text(text, terms[term_index + 1], DefaultContext))
    /\ term_index' = term_index + 1
    /\ UNCHANGED <<appVars, pc, text, searchVars, summaryVars, top_n, terms, ret>>

\* return results: a list with one result per term
AndReturn ==
    /\ pc = "and_loop"
    /\ term_index = Len(terms)
    /\ ret' = [kind |-> "list", results |-> op_results]
    /\ pc' = "done"
    /\ UNCHANGED <<appVars, text, searchVars, summaryVars, top_n, operatorVars>>

\* the OR branch is entered: terms are split, combined_results = []
OperatorsOr ==
    /\ pc = "operators"
    /\ ~HasAnd(query)
    /\ HasOr(query)
    /\ terms' = SplitTerms(query, WordOr)
    /\ term_index' = 0
    /\ op_results' = <<>>
    /\ pc' = "or_loop"
    /\ UNCHANGED <<appVars, text, searchVars, summaryVars, top_n, ret>>

\* one iteration of the OR loop
OrTerm ==
    /\ pc = "or_loop"
    /\ term_index < Len(terms)
    /\ op_results' = ExtendMatches(op_results,
           search_in_text(text, terms[term_index + 1], DefaultContext).matches)
    /\ term_index' = term_index + 1
    /\ UNCHANGED <<appVars, pc, text, searchVars, summaryVars, top_n, terms, ret>>

\* return of the OR branch
OrReturn ==
    /\ pc = "or_loop"
    /\ term_index = Len(terms)
    /\ ret' = [kind |-> "search", matches |-> op_results,
               count |-> Len(op_results), query |-> query]
    /\ pc' = "done"
    /\ UNCHANGED <<appVars, text, searchVars, summaryVars, top_n, operatorVars>>

\* no operator in the query: return search_in_text(text, query)
OperatorsPlain ==
    /\ pc = "operators"
    /\ ~HasAnd(query)
    /\ ~HasOr(query)
    /\ ret' = search_in_text(text, query, DefaultContext)
    /\ pc' = "done"
    /\ UNCHANGED <<appVars, text, searchVars, summaryVars, top_n, operatorVars>>

----------------------------------------------------------------------------
(* utils/summarizer.py: generate_summary as one call *)

\* num_sentences when the caller passes none
DefaultNumSentences == 15

\* top_n when the caller passes none
DefaultTopN == 20

generate_summary(t, n) ==
    LET sents == split_into_sentences(t)
    IN  IF Len(sents) <= n
        THEN [kind          |-> "summary",
              text          |-> ShortSummaryText(t, sents),
              formatted     |-> format_summary_output(t),
              bullet_points |-> sents]
        ELSE LET scores            == score_sentences(sents, calculate_word_frequency(t))
                 top_sentences     == TopSentences(scores, n)
                 summary_sentences == OriginalOrder(top_sentences, sents)
                 summary_text      == JoinSpace(SentencesOf(summary_sentences))
             IN  [kind          |-> "summary",
                  text          |-> summary_text,
                  formatted     |-> format_summary_output(summary_text),
                  bullet_points |-> SentencesOf(summary_sentences)]

----------------------------------------------------------------------------
(* app.py *)

UploadFolder == <<"u","p","l","o","a","d","s">>

AllowedExtensions ==
    {<<"p","d","f">>, <<"p","p","t">>, <<"p","p","t","x">>, <<"t","x","t">>}

\* the offsets of the dots of a name
DotOffsets(name) == {i \in 0..(Len(name) - 1) : name[i + 1] = "."}

\* filename.rsplit('.', 1)[1] for a name with a dot
AfterLastDot(name) == Slice(name, MaxOf(DotOffsets(name)) + 1, Len(name))

allowed_file(filename) ==
    /\ DotOffsets(filename) # {}
    /\ ToLower(AfterLastDot(filename)) \in AllowedExtensions

RECURSIVE SplitWhitespace(_)
\* s.split(): the runs of characters that are not whitespace
SplitWhitespace(s) ==
    LET from == SkipSpaces(s, 0)
        ends == {j \in (from + 1)..Len(s) : j = Len(s) \/ IsSpace(s[j + 1])}
    IN  IF from = Len(s) THEN <<>>
        ELSE <<Slice(s, from, MinOf(ends))>>
             \o SplitWhitespace(Slice(s, MinOf(ends), Len(s)))

RECURSIVE JoinUnderscore(_)
\* '_'.join(ss)
JoinUnderscore(ss) ==
    IF ss = <<>> THEN <<>>
    ELSE IF Len(ss) = 1 THEN ss[1]
    ELSE Head(ss) \o <<"_">> \o JoinUnderscore(Tail(ss))

\* the characters werkzeug's secure_filename keeps: [A-Za-z0-9_.-]
IsSafeChar(c) == IsWordChar(c) \/ c \in {".", "-"}

\* s.strip('._')
StripDotsUnderscores(s) ==
    LET keep == {j \in 1..Len(s) : s[j] \notin {".", "_"}}
    IN  IF keep = {} THEN <<>> ELSE SubSeq(s, MinOf(keep), MaxOf(keep))

\* werkzeug.utils.secure_filename on ASCII names: path separators become
\* blanks, blank runs become one underscore, other unsafe characters are
\* dropped, dots and underscores at both ends are stripped
secure_filename(name) ==
    LET blanked == [i \in 1..Len(name) |-> IF name[i] = "/" THEN " " ELSE name[i]]
        joined  == JoinUnderscore(SplitWhitespace(blanked))
    IN  StripDotsUnderscores(SelectSeq(joined, IsSafeChar))

\* os.path.join(folder, name)
PathJoin(folder, name) == folder \o <<"/">> \o name

\* Path(filepath).suffix.lower(): the last dot of the final component and what
\* follows it, '' when there is none or the name only starts with it
Suffix(filepath) ==
    LET slashes == {i \in 1..Len(filepath) : filepath[i] = "/"}
        name    == IF slashes = {} THEN filepath
                   ELSE SubSeq(filepath, MaxOf(slashes) + 1, Len(filepath))
        dots    == DotOffsets(name) \ {0}
    IN  IF dots = {} \/ MaxOf(dots) = Len(name) - 1 THEN <<>>
        ELSE ToLower(Slice(name, MaxOf(dots), Len(name)))

SuffixPdf == <<".","p","d","f">>

SuffixesPpt == {<<".","p","p","t">>, <<".","p","p","t","x">>}

SuffixTxt == <<".","t","x","t">>

\* extract_text_from_file(filepath) on a file with the given content.  A
\* content is [readable, text]: whether the PDF or presentation library can
\* read it, and the cleaned text its extractor returns.  Plain text is always
\* read (latin-1 is the fallback encoding).
extract_text_from_file(filepath, content) ==
    IF Suffix(filepath) = SuffixTxt
    THEN [raised |-> FALSE, text |-> content.text]
    ELSE IF Suffix(filepath) = SuffixPdf \/ Suffix(filepath) \in SuffixesPpt
    THEN (IF content.readable THEN [raised |-> FALSE, text |-> content.text]
          ELSE [raised |-> TRUE, text |-> <<>>])
    ELSE [raised |-> TRUE, text |-> <<>>]

\* 'key' in session
InSession(s, key) == key \in DOMAIN s

\* session[key] = value
SessionSet(s, key, value) == (key :> value) @@ s

\* session.get(key, default)
SessionGet(s, key, default) == IF key \in DOMAIN s THEN s[key] ELSE default

Unknown == <<"U","n","k","n","o","w","n">>

\* flash(message, category); detail is the formatted part of the message
Flash(message, detail, category) ==
    <<[message |-> message, detail |-> detail, category |-> category]>>

Redirect(endpoint) == [kind |-> "redirect", to |-> endpoint]

\* mutation: filename and filepath are stored before the text is extracted
StoreNameBeforeExtraction(s, filename, filepath, extracted) ==
    LET named == SessionSet(SessionSet(s, "filename", filename), "filepath", filepath)
    IN  IF extracted.raised THEN named
        ELSE SessionSet(named, "text", extracted.text)

\* the session after the try block of upload_file: the three keys are set
\* when the extraction returned, nothing is set when it raised
SessionAfterExtraction(s, filename, filepath, extracted) ==
    IF extracted.raised THEN s
    ELSE SessionSet(SessionSet(SessionSet(s, "filename", filename),
                               "text", extracted.text),
                    "filepath", filepath)

\* GET /
Index ==
    /\ pc = "serving"
    /\ flashed' = <<>>
    /\ response' = [kind |-> "render", template |-> "upload.html"]
    /\ UNCHANGED <<pc, text, searchVars, summaryVars, top_n, operatorVars,
                   session, uploads, ret>>

\* POST /upload.  req is the request: has_file ('file' in request.files),
\* filename (file.filename) and content (what the uploaded file holds)
UploadFile(req) ==
    /\ pc = "serving"
    /\ IF ~req.has_file \/ req.filename = <<>>
       THEN /\ flashed' = Flash("No file selected", <<>>, "error")
            /\ response' = Redirect("index")
            /\ UNCHANGED <<session, uploads>>
       ELSE IF allowed_file(req.filename)
       THEN LET filename  == secure_filename(req.filename)
                filepath  == PathJoin(UploadFolder, filename)
                extracted == extract_text_from_file(filepath, req.content)
            IN  /\ uploads' = (filepath :> req.content) @@ uploads
                /\ session' = SessionAfterExtraction(session, filename, filepath, extracted)
                /\ IF extracted.raised
                   THEN /\ flashed' = Flash("Error processing file: ", <<>>, "error")
                        /\ response' = Redirect("index")
                   ELSE /\ flashed' = Flash("Successfully uploaded and processed: ",
                                            filename, "success")
                        /\ response' = Redirect("search_page")
       ELSE /\ flashed' = Flash("Invalid file type. Please upload PDF, PPT, PPTX, or TXT files.",
                                <<>>, "error")
            /\ response' = Redirect("index")
            /\ UNCHANGED <<session, uploads>>
    /\ UNCHANGED <<pc, text, searchVars, summaryVars, top_n, operatorVars, ret>>

\* GET /search
SearchPage ==
    /\ pc = "serving"
    /\ IF ~InSession(session, "text")
       THEN /\ flashed' = Flash("Please upload a file first", <<>>, "warning")
            /\ response' = Redirect("index")
       ELSE /\ flashed' = <<>>
            /\ response' = [kind     |-> "render",
                            template |-> "search.html",
                            filename |-> SessionGet(session, "filename", Unknown)]
    /\ UNCHANGED <<pc, text, searchVars, summaryVars, top_n, operatorVars,
                   session, uploads, ret>>

\* how many queries the session remembers
RecentLimit == 5

\* mutation: the query is put at the front whether it is in the list or not
RememberAlways(recent, q) == Take(<<q>> \o recent, RecentLimit)

\* lines 86-89: a query that is not in the list is inserted at the front and
\* the list is cut to its first five entries
RememberQuery(recent, q) ==
    IF \E k \in 1..Len(recent) : recent[k] = q THEN recent
    ELSE Take(<<q>> \o recent, RecentLimit)

\* POST /search_results with the form field query
SearchResults(form_query) ==
    /\ pc = "serving"
    /\ IF ~InSession(session, "text")
       THEN /\ flashed' = Flash("Please upload a file first", <<>>, "warning")
            /\ response' = Redirect("index")
            /\ UNCHANGED session
       ELSE IF Strip(form_query) = <<>>
       THEN /\ flashed' = Flash("Please enter a search query", <<>>, "warning")
            /\ response' = Redirect("search_page")
            /\ UNCHANGED session
       ELSE LET q      == Strip(form_query)
                recent == RememberQuery(SessionGet(session, "recent_searches", <<>>), q)
            IN  /\ session' = SessionSet(session, "recent_searches", recent)
                /\ flashed' = <<>>
                /\ response' = [kind            |-> "render",
                                template        |-> "results.html",
                                query           |-> q,
                                results         |-> search_in_text(session["text"], q,
                                                                   DefaultContext),
                                filename        |-> SessionGet(session, "filename", Unknown),
                                recent_searches |-> recent]
    /\ UNCHANGED <<pc, text, searchVars, summaryVars, top_n, operatorVars, uploads, ret>>

\* round(chars / words * 100, 1) in tenths, ties to the even tenth
RoundedRatio(chars, words) ==
    LET num   == chars * 1000
        floor == num \div words
        twice == 2 * (num % words)
    IN  IF twice > words \/ (twice = words /\ floor % 2 = 1) THEN floor + 1 ELSE floor

\* the stats dictionary of summarize_page; compression_ratio in tenths
Stats(t, summary) ==
    LET word_count == Len(SplitWhitespace(t))
    IN  [word_count        |-> word_count,
         char_count        |-> Len(t),
         line_count        |-> CountChar(t, "\n") + 1,
         compression_ratio |-> IF word_count > 0
                               THEN RoundedRatio(Len(summary.text), word_count)
                               ELSE 0]

\* GET /summarize
SummarizePage ==
    /\ pc = "serving"
    /\ IF ~InSession(session, "text")
       THEN /\ flashed' = Flash("Please upload a file first", <<>>, "warning")
            /\ response' = Redirect("index")
       ELSE LET summary == generate_summary(session["text"], DefaultNumSentences)
            IN  /\ flashed' = <<>>
                /\ response' = [kind     |-> "render",
                                template |-> "summarize.html",
                                filename |-> SessionGet(session, "filename", Unknown),
                                summary  |-> summary,
                                keywords |-> extract_keywords(session["text"], DefaultTopN),
                                stats    |-> Stats(session["text"], summary)]
    /\ UNCHANGED <<pc, text, searchVars, summaryVars, top_n, operatorVars,
                   session, uploads, ret>>

\* GET /download_summary; the body is given by its variable parts
DownloadSummary ==
    /\ pc = "serving"
    /\ IF ~InSession(session, "text")
       THEN /\ flashed' = Flash("Please upload a file first", <<>>, "warning")
            /\ response' = Redirect("index")
       ELSE LET filename == SessionGet(session, "filename", Unknown)
            IN  /\ flashed' = <<>>
                /\ response' = [kind      |-> "download",
                                filename  |-> filename,
                                keywords  |-> Take(extract_keywords(session["text"],
                                                                    DefaultTopN), 20),
                                formatted |-> generate_summary(session["text"],
                                                  DefaultNumSentences).formatted]
    /\ UNCHANGED <<pc, text, searchVars, summaryVars, top_n, operatorVars,
                   session, uploads, ret>>

\* GET /clear: the uploaded file is removed, the session is emptied
ClearSession ==
    /\ pc = "serving"
    /\ uploads' = IF InSession(session, "filepath")
                  THEN [p \in DOMAIN uploads \ {session["filepath"]} |-> uploads[p]]
                  ELSE uploads
    /\ session' = <<>>
    /\ flashed' = Flash("Session cleared. Upload a new file to start.", <<>>, "info")
    /\ response' = Redirect("index")
    /\ UNCHANGED <<pc, text, searchVars, summaryVars, top_n, operatorVars, ret>>

----------------------------------------------------------------------------
(* Input spaces *)

SearchAlphabet == {"a", "A", "."}

SeqsUpTo(S, n) == UNION {[1..k -> S] : k \in 0..n}

SearchTexts == SeqsUpTo(SearchAlphabet, MaxTextLen)

SearchQueries == SeqsUpTo(SearchAlphabet, MaxQueryLen)

SearchInit ==
    /\ pc = "search_loop"
    /\ text \in SearchTexts
    /\ query \in SearchQueries
    /\ context_chars \in 0..MaxContext
    /\ position = 0
    /\ results = <<>>
    /\ match_count = 0
    /\ NoSummaryCall
    /\ top_n = 0
    /\ NoAppRequest
    /\ NoOperatorCall
    /\ ret = NoReturn

SearchNext == SearchFound \/ SearchReturn

MarkerPage1 == <<"-","-","-"," ","P","a","g","e"," ","1"," ","-","-","-","\n">>

MarkerLowerPage2 == <<"-","-","-"," ","p","a","g","e"," ","2"," ","-","-","-","\n">>

MarkerSlide12 == <<"-","-","-","S","l","i","d","e"," ","1","2","-","-","-">>

\* completes a second marker on the closing dashes of MarkerSlide12
MarkerTailPage4 == <<" ","P","a","g","e"," ","4"," ","-","-","-">>

WordFoo == <<"f","o","o">>

\* filler after which MarkerPage1 still lies wholly in the page window
PadFits == [i \in 1..(PageWindow - Len(MarkerPage1)) |-> "x"]

\* filler one character longer: MarkerPage1 no longer lies in the window
PadTooLong == [i \in 1..(PageWindow - Len(MarkerPage1) + 1) |-> "x"]

PageChunks ==
    {MarkerPage1, MarkerLowerPage2, MarkerSlide12, MarkerTailPage4,
     WordFoo, PadFits, PadTooLong, <<"\n">>}

RECURSIVE Concat(_)
Concat(ss) == IF ss = <<>> THEN <<>> ELSE Head(ss) \o Concat(Tail(ss))

PageTexts == {Concat(cs) : cs \in SeqsUpTo(PageChunks, MaxChunks)}

PageInit ==
    /\ pc = "search_loop"
    /\ text \in PageTexts
    /\ query = WordFoo
    /\ context_chars = DefaultContext
    /\ position = 0
    /\ results = <<>>
    /\ match_count = 0
    /\ NoSummaryCall
    /\ top_n = 0
    /\ NoAppRequest
    /\ NoOperatorCall
    /\ ret = NoReturn

SpecPage == PageInit /\ [][SearchNext]_vars

\* texts for generate_summary: parts joined by single spaces
\* four tokens, none a stop word
SentCats ==
    <<"C","a","t","s"," ","c","h","a","s","e"," ","m","i","c","e"," ","i","n",
      " ","b","a","r","n","s",".">>

\* four tokens, two of them shared with SentCats
SentDogs ==
    <<"D","o","g","s"," ","c","h","a","s","e"," ","c","a","t","s"," ","i","n",
      " ","y","a","r","d","s",".">>

\* a marker word, a number, six tokens
SentKey ==
    <<"T","h","e"," ","k","e","y"," ","p","o","i","n","t"," ","i","s"," ","4",
      "2"," ","i","t","e","m","s"," ","l","o","n","g"," ","h","e","r","e",
      ".">>

\* a page marker: no sentence end, so it runs into the text behind it
SentMarker ==
    <<"-","-","-"," ","P","a","g","e"," ","2"," ","-","-","-">>

\* shorter than 16 characters
SentShort ==
    <<"S","h","o","r","t"," ","o","n","e",".">>

SummaryParts == {SentCats, SentDogs, SentKey, SentMarker, SentShort}

SummaryTexts == {JoinSpace(ps) : ps \in SeqsUpTo(SummaryParts, MaxParts)}

NoSearchCall ==
    /\ query = <<>>
    /\ context_chars = 0
    /\ position = 0
    /\ results = <<>>
    /\ match_count = 0

SummaryInit ==
    /\ pc = "summary_split"
    /\ text \in SummaryTexts
    /\ num_sentences \in 0..MaxNumSentences
    /\ sentences = <<>>
    /\ sentence_scores = <<>>
    /\ NoSearchCall
    /\ top_n = 0
    /\ NoAppRequest
    /\ NoOperatorCall
    /\ ret = NoReturn

SummaryNext ==
    \/ GenerateSummaryShort
    \/ GenerateSummarySplit
    \/ GenerateSummaryScore
    \/ GenerateSummarySelect

SpecSummary == SummaryInit /\ [][SummaryNext]_vars

\* texts for extract_keywords: words joined by single spaces
WordCat == <<"c","a","t">>

WordCatCapital == <<"C","a","t">>

WordDog == <<"d","o","g">>

\* a stop word
WordThe == <<"t","h","e">>

\* too short for a token
WordOx == <<"o","x">>

\* letters with a digit attached: no token
WordEmu9 == <<"e","m","u","9">>

KeywordWords == {WordCat, WordCatCapital, WordDog, WordThe, WordOx, WordEmu9}

KeywordTexts == {JoinSpace(ws) : ws \in SeqsUpTo(KeywordWords, MaxWords)}

KeywordsInit ==
    /\ pc = "keywords"
    /\ text \in KeywordTexts
    /\ top_n \in 0..MaxTopN
    /\ NoSearchCall
    /\ NoSummaryCall
    /\ NoAppRequest
    /\ NoOperatorCall
    /\ ret = NoReturn

KeywordsNext == ExtractKeywords

SpecKeywords == KeywordsInit /\ [][KeywordsNext]_vars

SpecSearch == SearchInit /\ [][SearchNext]_vars

\* query expressions for search_with_operators: terms and operators in a row
TermA == <<"a">>

TermB == <<"b">>

OperatorOr == <<" ", "O", "R", " ">>

OperatorOrLower == <<" ", "o", "r", " ">>

OperatorOrTabs == <<"\t", "O", "R", "\t">>

OperatorAnd == <<" ", "A", "N", "D", " ">>

OperatorParts ==
    {TermA, TermB, OperatorOr, OperatorOrLower, OperatorOrTabs, OperatorAnd}

OperatorQueries == {Concat(ps) : ps \in SeqsUpTo(OperatorParts, MaxOperatorParts)}

OperatorTexts == {<<>>, <<"a", "b">>, <<"b", "a", "a">>, <<"A", "b", "a">>}

OperatorsInit ==
    /\ pc = "operators"
    /\ text \in OperatorTexts
    /\ query \in OperatorQueries
    /\ context_chars = DefaultContext
    /\ position = 0
    /\ results = <<>>
    /\ match_count = 0
    /\ NoSummaryCall
    /\ top_n = 0
    /\ NoAppRequest
    /\ NoOperatorCall
    /\ ret = NoReturn

OperatorsNext ==
    \/ OperatorsAnd
    \/ AndTerm
    \/ AndReturn
    \/ OperatorsOr
    \/ OrTerm
    \/ OrReturn
    \/ OperatorsPlain

SpecOperators == OperatorsInit /\ [][OperatorsNext]_vars

\* the web application: uploaded files and form queries
TextCats ==
    <<"c","a","t","s"," ","c","h","a","s","e"," ","c","a","t","s"," ",
      "h","e","r","e",".">>

TextDogs == <<"d","o","g","s",".">>

ContentCats == [readable |-> TRUE, text |-> TextCats]

ContentDogs == [readable |-> TRUE, text |-> TextDogs]

\* a file no PDF or presentation library can read; as plain text it is empty
ContentBroken == [readable |-> FALSE, text |-> <<>>]

NameText == <<"n",".","t","x","t">>

NameUpperPdf == <<"m"," ","n",".","P","D","F">>

NameProgram == <<"n",".","e","x","e">>

NameNoDot == <<"n","o","t","e","s">>

NameOnlySuffix == <<".","t","x","t">>

NoFileRequest == [has_file |-> FALSE, filename |-> <<>>, content |-> ContentBroken]

UploadRequests ==
    {NoFileRequest}
    \cup [has_file : {TRUE},
          filename : {<<>>, NameText, NameUpperPdf, NameProgram, NameNoDot, NameOnlySuffix},
          content  : {ContentCats, ContentDogs, ContentBroken}]

FormQueries == {<<>>, <<"a">>, <<" ", "s", " ">>}

AppInit ==
    /\ pc = "serving"
    /\ text = <<>>
    /\ NoSearchCall
    /\ NoSummaryCall
    /\ top_n = 0
    /\ NoOperatorCall
    /\ NoAppRequest
    /\ ret = NoReturn

AppNext ==
    \/ Index
    \/ \E req \in UploadRequests : UploadFile(req)
    \/ SearchPage
    \/ \E q \in FormQueries : SearchResults(q)
    \/ SummarizePage
    \/ DownloadSummary
    \/ ClearSession

SpecApp == AppInit /\ [][AppNext]_vars

\* the same application with more distinct queries than the session remembers
RecentUploadRequests ==
    [has_file : {TRUE}, filename : {NameText, NameProgram}, content : {ContentDogs}]

RecentQueries ==
    {<<>>, <<" ">>, <<"d">>, <<" ", "d">>, <<"o">>, <<"g">>, <<"s">>, <<".">>, <<"x">>}

RecentNext ==
    \/ Index
    \/ \E req \in RecentUploadRequests : UploadFile(req)
    \/ SearchPage
    \/ \E q \in RecentQueries : SearchResults(q)
    \/ SummarizePage
    \/ DownloadSummary
    \/ ClearSession

SpecRecent == AppInit /\ [][RecentNext]_vars

----------------------------------------------------------------------------
(* Properties of search_in_text *)

\* offset p is an occurrence: lower(t) contains lower(q) starting at p
OccursAt(t, q, p) ==
    /\ p + Len(q) <= Len(t)
    /\ \A k \in 1..Len(q) : LowerChar(t[p + k]) = LowerChar(q[k])

Occurrences(t, q) == {p \in 0..Len(t) : OccursAt(t, q, p)}

MatchPositions(ms) == {ms[i].position : i \in 1..Len(ms)}

\* C1: for a non-empty query the returned matches are exactly the offsets at
\* which lower(text) contains lower(query), overlapping ones included, one
\* match per offset, in strictly ascending order of position, and count is
\* the number of matches listed.
C1_MatchesAreAllOccurrences ==
    (pc = "done" /\ query # <<>>) =>
        /\ MatchPositions(ret.matches) = Occurrences(text, query)
        /\ \A i \in 1..(Len(ret.matches) - 1) :
               ret.matches[i].position < ret.matches[i + 1].position
        /\ ret.count = Len(ret.matches)

\* a finished search of a query of two characters that matched at two
\* adjacent (overlapping) offsets, one of them only up to case
C1_Witness ==
    /\ pc = "done"
    /\ Len(query) = 2
    /\ ret.count >= 2
    /\ \E i \in 1..(Len(ret.matches) - 1) :
           /\ ret.matches[i + 1].position = ret.matches[i].position + 1
           /\ Slice(text, ret.matches[i].position, ret.matches[i].position + 2) # query

\* C2: a search with an empty query on a non-empty text ends in a validation
\* error and returns no result set.
C2_EmptyQueryRaises ==
    (pc = "done" /\ query = <<>> /\ text # <<>>) => ret.kind = "error"

\* the characters of t in the window [p - ctx, p + len(q) + ctx) that exist
SnippetWindow(t, p, q, ctx) ==
    LET lo == IF p - ctx < 0 THEN 0 ELSE p - ctx
        hi == IF p + Len(q) + ctx > Len(t) THEN Len(t) ELSE p + Len(q) + ctx
    IN  [k \in 1..(hi - lo) |-> t[lo + k]]

ClampedLeft(p, ctx) == p - ctx < 0

ClampedRight(t, p, q, ctx) == p + Len(q) + ctx > Len(t)

OmittedLeft(p, ctx) == p - ctx > 0

OmittedRight(t, p, q, ctx) == p + Len(q) + ctx < Len(t)

\* C4 as stated: the snippet before highlighting is the clamped window, with
\* '...' in front exactly when the window was clamped on the left and '...'
\* behind exactly when it was clamped on the right.
C4_EllipsisWhenClamped ==
    \A i \in 1..Len(results) :
        LET p == results[i].position
        IN  query # <<>> => results[i].raw_snippet =
                (IF ClampedLeft(p, context_chars) THEN Ellipsis ELSE <<>>)
                \o SnippetWindow(text, p, query, context_chars)
                \o (IF ClampedRight(text, p, query, context_chars) THEN Ellipsis ELSE <<>>)

\* C4 amended: the snippet before highlighting is the clamped window, with
\* '...' in front exactly when text before the window is left out (the window
\* starts after offset 0) and '...' behind exactly when text after the window
\* is left out (the window ends before the end of the text).
C4_EllipsisWhenTextOmitted ==
    \A i \in 1..Len(results) :
        LET p == results[i].position
        IN  results[i].raw_snippet =
                (IF OmittedLeft(p, context_chars) THEN Ellipsis ELSE <<>>)
                \o SnippetWindow(text, p, query, context_chars)
                \o (IF OmittedRight(text, p, query, context_chars) THEN Ellipsis ELSE <<>>)

\* a match whose window leaves text out on the left and is clamped on the right
C4_Witness ==
    \E i \in 1..Len(results) :
        /\ query # <<>>
        /\ OmittedLeft(results[i].position, context_chars)
        /\ ClampedRight(text, results[i].position, query, context_chars)
        /\ Len(results[i].raw_snippet) > 3

RECURSIVE MarkedSpans(_, _, _, _)
\* the spans of h enclosed by a <mark> and the next </mark>, as offsets and
\* lengths in h without its mark tags.  i: offset in h; n: characters of the
\* unmarked text passed so far; open: n at the pending <mark>, or -1
MarkedSpans(h, i, n, open) ==
    IF i >= Len(h) THEN <<>>
    ELSE IF open # -1 /\ StartsWithAt(h, i, MarkClose)
         THEN <<[start |-> open, len |-> n - open]>>
              \o MarkedSpans(h, i + Len(MarkClose), n, -1)
    ELSE IF open = -1 /\ StartsWithAt(h, i, MarkOpen)
         THEN MarkedSpans(h, i + Len(MarkOpen), n, n)
    ELSE MarkedSpans(h, i + 1, n + 1, open)

RECURSIVE StripMarks(_, _)
\* h from offset i on without its mark tags
StripMarks(h, i) ==
    IF i >= Len(h) THEN <<>>
    ELSE IF StartsWithAt(h, i, MarkClose) THEN StripMarks(h, i + Len(MarkClose))
    ELSE IF StartsWithAt(h, i, MarkOpen) THEN StripMarks(h, i + Len(MarkOpen))
    ELSE <<h[i + 1]>> \o StripMarks(h, i + 1)

\* the snippet without mark tags and without the ellipses that were added
\* gives back the window of the text, and the window contains the query
StripsToWindow(m) ==
    LET u    == StripMarks(m.snippet, 0)
        p    == m.position
        core == SubSeq(u,
                       1 + (IF OmittedLeft(p, context_chars) THEN 3 ELSE 0),
                       Len(u) - (IF OmittedRight(text, p, query, context_chars)
                                 THEN 3 ELSE 0))
    IN  /\ core = SnippetWindow(text, p, query, context_chars)
        /\ Occurrences(core, query) # {}

\* C5 as stated: every case-insensitive occurrence of the query in the
\* snippet, overlapping ones included, is wrapped in <mark>...</mark>, and
\* without the tags and ellipses the snippet is a slice of the text that
\* contains the query.
C5_EveryOccurrenceWrapped ==
    \A i \in 1..Len(results) :
        LET m     == results[i]
            spans == MarkedSpans(m.snippet, 0, 0, -1)
        IN  query # <<>> =>
                /\ \A p \in Occurrences(m.raw_snippet, query) :
                       \E k \in 1..Len(spans) :
                           spans[k] = [start |-> p, len |-> Len(query)]
                /\ StripsToWindow(m)

\* C5 amended: the wrapped spans are occurrences of the query in the snippet
\* that do not overlap one another, and every occurrence is wrapped unless it
\* overlaps a wrapped occurrence that starts before it; without the inserted
\* tags and the ellipses the snippet is a slice of the text that contains the
\* query.
C5_LeftmostOccurrencesWrapped ==
    \A i \in 1..Len(results) :
        LET m     == results[i]
            spans == MarkedSpans(m.snippet, 0, 0, -1)
            Wrapped(p) == \E k \in 1..Len(spans) :
                              spans[k] = [start |-> p, len |-> Len(query)]
        IN  /\ \A k \in 1..Len(spans) :
                   /\ spans[k].len = Len(query)
                   /\ OccursAt(m.raw_snippet, query, spans[k].start)
            /\ \A k \in 1..(Len(spans) - 1) :
                   /\ spans[k].start < spans[k + 1].start
                   /\ spans[k].start + Len(query) <= spans[k + 1].start
            /\ \A p \in Occurrences(m.raw_snippet, query) :
                   \/ Wrapped(p)
                   \/ \E k \in 1..Len(spans) :
                          spans[k].start < p /\ p < spans[k].start + Len(query)
            /\ StripsToWindow(m)

\* a snippet with two overlapping occurrences of the query, of which the
\* first is wrapped and the second is not, one occurrence differing in case
C5_Witness ==
    \E i \in 1..Len(results) :
        LET m     == results[i]
            spans == MarkedSpans(m.snippet, 0, 0, -1)
        IN  /\ Len(query) = 2
            /\ \E p \in Occurrences(m.raw_snippet, query) :
                   /\ p + 1 \in Occurrences(m.raw_snippet, query)
                   /\ \E k \in 1..Len(spans) : spans[k].start = p
                   /\ \A k \in 1..Len(spans) : spans[k].start # p + 1
                   /\ Slice(m.raw_snippet, p, p + 2) # query

----------------------------------------------------------------------------
(* Properties of extract_page_number *)

SpaceRunEnd(t, i) == MinOf({j \in i..Len(t) : j = Len(t) \/ ~IsSpace(t[j + 1])})

DigitRunEnd(t, i) == MinOf({j \in i..Len(t) : j = Len(t) \/ ~IsDigit(t[j + 1])})

SameWord(a, b, fold) == IF fold THEN ToLower(a) = ToLower(b) ELSE a = b

NoMarker == [end |-> -1, number |-> -1]

\* the marker that starts at offset i of t: '---', optional whitespace, the
\* word Page or Slide (compared up to case when fold), whitespace, the digits
\* of the number, optional whitespace, '---'
MarkerAt(t, i, fold) ==
    IF Slice(t, i, i + 3) # Dashes THEN NoMarker
    ELSE LET b == SpaceRunEnd(t, i + 3)
             n == IF SameWord(Slice(t, b, b + 4), WordPage, fold) THEN 4
                  ELSE IF SameWord(Slice(t, b, b + 5), WordSlide, fold) THEN 5
                  ELSE 0
             d == SpaceRunEnd(t, b + n)
             e == DigitRunEnd(t, d)
             f == SpaceRunEnd(t, e)
         IN  IF n > 0 /\ d > b + n /\ e > d /\ Slice(t, f, f + 3) = Dashes
             THEN [end |-> f + 3, number |-> DecimalValue(Slice(t, d, e))]
             ELSE NoMarker

\* offsets of the markers that lie wholly in the 500 characters before p
MarkersInWindow(t, p, fold) ==
    {i \in (IF p > PageWindow THEN p - PageWindow ELSE 0)..(p - 1) :
        /\ MarkerAt(t, i, fold) # NoMarker
        /\ MarkerAt(t, i, fold).end <= p}

RECURSIVE ScannedMarkers(_, _, _)
\* the markers of M a left-to-right scan from offset `from` finds when it
\* resumes behind each marker found (a marker that starts inside the
\* previous one is passed over)
ScannedMarkers(t, M, from) ==
    LET rest == {i \in M : i >= from}
    IN  IF rest = {} THEN {}
        ELSE {MinOf(rest)}
             \cup ScannedMarkers(t, M, MarkerAt(t, MinOf(rest), FALSE).end)

\* C3 as stated: page_number is the number of the closest marker, Page and
\* Slide matched case-insensitively, that lies in the 500 characters before
\* the match, and null exactly when there is none.
C3_ClosestMarkerAnyCase ==
    \A k \in 1..Len(results) :
        LET p == results[k].position
            M == MarkersInWindow(text, p, TRUE)
        IN  results[k].page_number =
                IF M = {} THEN None ELSE MarkerAt(text, MaxOf(M), TRUE).number

\* C3 amended: page_number is the number of the last marker that a
\* left-to-right scan for non-overlapping markers finds in the 500
\* characters before the match, the words Page and Slide spelled exactly so
\* (case-sensitively), and null exactly when that window holds no marker.
C3_LastScannedMarkerExactCase ==
    \A k \in 1..Len(results) :
        LET p  == results[k].position
            M  == MarkersInWindow(text, p, FALSE)
            lo == IF p > PageWindow THEN p - PageWindow ELSE 0
            S  == ScannedMarkers(text, M, lo)
        IN  /\ results[k].page_number =
                   IF S = {} THEN None ELSE MarkerAt(text, MaxOf(S), FALSE).number
            /\ (results[k].page_number = None) <=> (M = {})

\* a match behind an exact-case marker and a lower-case marker, in this
\* order: the lower-case one is the closer, the page number is the other's
C3_Witness ==
    \E k \in 1..Len(results) :
        LET p == results[k].position
        IN  /\ MarkersInWindow(text, p, FALSE) # {}
            /\ MarkersInWindow(text, p, TRUE) # MarkersInWindow(text, p, FALSE)
            /\ MaxOf(MarkersInWindow(text, p, TRUE)) \notin MarkersInWindow(text, p, FALSE)
            /\ results[k].page_number = 1

----------------------------------------------------------------------------
(* Properties of generate_summary *)

\* the score of the sentence at position i (0-based) of split(text)
PositionScore(i) == SentenceScore(sentences, i, calculate_word_frequency(text))

Positions == 0..(Len(sentences) - 1)

\* C6: duplicate sentence text at different positions gives distinct entries
\* keyed by position: every position of split(text) has its own entry, scored
\* with its own position, and when split(text) has more than n sentences
\* exactly n are selected.
C6_DuplicatesKeyedByPosition ==
    /\ pc \in {"summary_select", "done"} /\ Len(sentences) > num_sentences =>
           /\ Len(sentence_scores) = Len(sentences)
           /\ \A i \in Positions :
                  sentence_scores[i + 1] =
                      [sentence |-> sentences[i + 1], score |-> PositionScore(i)]
    /\ pc = "done" /\ Len(sentences) > num_sentences =>
           Len(ret.bullet_points) = num_sentences

\* position j ranks before position i: a higher score, or the same score
\* and earlier in the document
Outranks(j, i) ==
    \/ PositionScore(j) > PositionScore(i)
    \/ PositionScore(j) = PositionScore(i) /\ j < i

\* the n positions that rank first
TopPositions ==
    {i \in Positions :
        Cardinality({j \in Positions : Outranks(j, i)}) < num_sentences}

\* the selected sentences are those at the n positions with the highest
\* scores, of equal scores the earlier position first
SelectsTopPositions ==
    /\ Len(ret.bullet_points) = num_sentences
    /\ SeqRange(ret.bullet_points) = {sentences[i + 1] : i \in TopPositions}

\* C7: when split(text) has more than n sentences, the selected sentences are
\* the n with the highest scores, and of two sentences with equal scores of
\* which only one fits, the earlier one in split(text) is selected.
C7_TopScoresEarlierFirst ==
    pc = "done" /\ Len(sentences) > num_sentences => SelectsTopPositions

DistinctSentences ==
    \A i, j \in Positions : sentences[i + 1] = sentences[j + 1] => i = j

\* the statement of C7 for texts in which no sentence text repeats
TopScoresEarlierFirstIfDistinct ==
    pc = "done" /\ Len(sentences) > num_sentences /\ DistinctSentences
        => SelectsTopPositions

\* a summary of distinct sentences in which two positions tie and only the
\* earlier one is selected
TopScoresTieReached ==
    /\ pc = "done"
    /\ Len(sentences) > num_sentences
    /\ DistinctSentences
    /\ \E i, j \in Positions :
           /\ i < j
           /\ PositionScore(i) = PositionScore(j)
           /\ i \in TopPositions
           /\ j \notin TopPositions

RECURSIVE IsSubsequence(_, _)
\* a is b with some elements left out
IsSubsequence(a, b) ==
    IF a = <<>> THEN TRUE
    ELSE IF b = <<>> THEN FALSE
    ELSE IF Head(a) = Head(b) THEN IsSubsequence(Tail(a), Tail(b))
    ELSE IsSubsequence(a, Tail(b))

\* C8: the selected sentences of a summary form a subsequence of
\* split(text): they keep the relative order of the document, whatever
\* their scores.
C8_SelectedInDocumentOrder ==
    pc = "done" /\ ret.kind = "summary" =>
        IsSubsequence(ret.bullet_points, split_into_sentences(text))

\* a summary of two or more scored sentences whose rank order is not their
\* order in the document
C8_Witness ==
    /\ pc = "done"
    /\ ret.kind = "summary"
    /\ Len(sentences) > num_sentences
    /\ Len(ret.bullet_points) >= 2
    /\ SentencesOf(TopSentences(sentence_scores, num_sentences)) # ret.bullet_points

\* C9: when split(text) has at most n sentences the summary text is the text
\* itself, unchanged, with whatever split filters out, and nothing is scored.
C9_ShortTextReturnedUnchanged ==
    pc = "done" /\ ret.kind = "summary"
        /\ Len(split_into_sentences(text)) <= num_sentences =>
            /\ ret.text = text
            /\ sentence_scores = <<>>

\* a short text returned whole although split dropped a part of it
C9_Witness ==
    /\ pc = "done"
    /\ ret.kind = "summary"
    /\ sentences # <<>>
    /\ Len(sentences) <= num_sentences
    /\ JoinSpace(sentences) # text
    /\ ret.text = text

----------------------------------------------------------------------------
(* Properties of extract_keywords *)

\* how often the token w occurs in the text
RawCount(w) ==
    LET toks == Tokenize(text)
    IN  Cardinality({i \in 1..Len(toks) : toks[i] = w})

----------------------------------------------------------------------------
(* Properties of search_with_operators *)

\* the operator word, in any case, stands in q between two space characters
ContainsOperator(q, word) ==
    \E i \in 1..(Len(q) - Len(word) - 1) :
        /\ q[i] = " "
        /\ \A k \in 1..Len(word) : LowerChar(q[i + k]) = word[k]
        /\ q[i + Len(word) + 1] = " "

\* what search_in_text finds for each term, one result per term
TermResults(t, ts) == [k \in 1..Len(ts) |-> search_in_text(t, ts[k], DefaultContext)]

\* the matches of the results rs one after the other, in the order of rs
MatchesInTermOrder(rs) == Concat([k \in 1..Len(rs) |-> rs[k].matches])

RECURSIVE SumOfCounts(_)
\* the counts of the results rs added up
SumOfCounts(rs) ==
    IF rs = <<>> THEN 0 ELSE Head(rs).count + SumOfCounts(Tail(rs))

\* C11: a query that contains OR (any case, between spaces) and no such AND
\* returns one result whose matches are the matches of search_in_text for
\* the OR-separated terms one after the other in term order, nothing removed
\* and nothing re-sorted, and whose count is the sum of the per-term counts;
\* a query that contains AND returns a list with one search_in_text result
\* per AND-separated term, also when it contains OR
C11_OrMergesAndTakesPrecedence ==
    pc = "done" =>
        /\ (ContainsOperator(query, WordOr) /\ ~ContainsOperator(query, WordAnd)) =>
              LET perTerm == TermResults(text, SplitTerms(query, WordOr))
              IN  /\ ret.kind = "search"
                  /\ ret.matches = MatchesInTermOrder(perTerm)
                  /\ ret.count = SumOfCounts(perTerm)
                  /\ ret.query = query
        /\ ContainsOperator(query, WordAnd) =>
              /\ ret.kind = "list"
              /\ ret.results = TermResults(text, SplitTerms(query, WordAnd))

\* an OR query of non-empty terms whose merged matches hold one position
\* twice and are not in ascending order of position
C11_Witness ==
    /\ pc = "done"
    /\ ContainsOperator(query, WordOr)
    /\ ~ContainsOperator(query, WordAnd)
    /\ ret.kind = "search"
    /\ Len(terms) >= 2
    /\ \A k \in 1..Len(terms) : terms[k] # <<>>
    /\ \E j, k \in 1..Len(ret.matches) :
          j < k /\ ret.matches[j].position = ret.matches[k].position
    /\ \E j, k \in 1..Len(ret.matches) :
          j < k /\ ret.matches[j].position > ret.matches[k].position

----------------------------------------------------------------------------
(* Properties of the upload and session handlers *)

DocumentKeys == {"filename", "text", "filepath"}

\* the document a session stores: its filename, text and filepath entries
Document(s) == [k \in DOMAIN s \cap DocumentKeys |-> s[k]]

HasDocument(s) == DocumentKeys \subseteq DOMAIN s

\* the causes of a failed upload: no file, an extension that is not allowed,
\* or an extraction that raises
UploadFails(req) ==
    \/ ~req.has_file
    \/ req.filename = <<>>
    \/ ~allowed_file(req.filename)
    \/ extract_text_from_file(PathJoin(UploadFolder, secure_filename(req.filename)),
                              req.content).raised

ErrorFlashed(messages) ==
    /\ Len(messages) = 1
    /\ messages[1].category = "error"
    /\ messages[1].message # ""

\* a step that replaces or removes the document: a successful upload or a clear
ReplacesDocument ==
    \/ ClearSession
    \/ \E req \in UploadRequests : UploadFile(req) /\ ~UploadFails(req)

\* C12: a failed upload (no file, disallowed extension, extraction error)
\* leaves the filename, text and filepath of the session as they were and
\* flashes an error message; a stored document is kept by every request
\* other than a successful upload or a clear, and while it is stored a search
\* with a non-empty query and a summarize request are answered from its text
C12_FailedUploadKeepsDocument ==
    [][/\ \A req \in UploadRequests :
             (UploadFile(req) /\ UploadFails(req)) =>
                 /\ Document(session') = Document(session)
                 /\ ErrorFlashed(flashed')
       /\ (HasDocument(session) /\ ~ReplacesDocument) =>
             Document(session') = Document(session)
       /\ \A q \in FormQueries :
             (HasDocument(session) /\ Strip(q) # <<>> /\ SearchResults(q)) =>
                 /\ response'.kind = "render"
                 /\ response'.template = "results.html"
                 /\ response'.results.matches =
                        search_in_text(session.text, Strip(q), DefaultContext).matches
       /\ (HasDocument(session) /\ SummarizePage) =>
             /\ response'.kind = "render"
             /\ response'.template = "summarize.html"
             /\ response'.summary = generate_summary(session.text, DefaultNumSentences)
      ]_vars

\* a document is stored, an upload under its name has just failed in the
\* extraction: the file on disk is the unreadable one, the session still
\* holds the text extracted before
C12_Witness ==
    /\ HasDocument(session)
    /\ session.text = TextDogs
    /\ session.filepath \in DOMAIN uploads
    /\ uploads[session.filepath] = ContentBroken
    /\ ErrorFlashed(flashed)
    /\ response = Redirect("index")

\* the recent_searches list of a session; a session without the key has none
RecentSearches(s) == IF "recent_searches" \in DOMAIN s THEN s["recent_searches"] ELSE <<>>

\* at most five queries, none twice, none empty
RecentWellFormed(recent) ==
    /\ Len(recent) <= 5
    /\ \A j, k \in 1..Len(recent) : j # k => recent[j] # recent[k]
    /\ \A k \in 1..Len(recent) : recent[k] # <<>>

Holds(recent, q) == \E k \in 1..Len(recent) : recent[k] = q

\* new is old with q put in front and anything beyond five entries dropped
PutInFront(old, q, new) ==
    /\ Len(new) = Min(Len(old) + 1, 5)
    /\ new[1] = q
    /\ \A k \in 2..Len(new) : new[k] = old[k - 1]

\* C13: in every reachable session recent_searches holds at most 5 queries,
\* no query twice and no empty query; a search_results request served on an
\* uploaded document with a query that is not empty after trimming puts the
\* trimmed query at the front and drops what lies beyond the fifth entry when
\* the list does not hold it, and leaves the list as it is when it does
C13_RecentSearchesBounded ==
    [][/\ RecentWellFormed(RecentSearches(session))
       /\ RecentWellFormed(RecentSearches(session'))
       /\ \A q \in RecentQueries :
             (SearchResults(q) /\ HasDocument(session) /\ Strip(q) # <<>>) =>
                 IF Holds(RecentSearches(session), Strip(q))
                 THEN RecentSearches(session') = RecentSearches(session)
                 ELSE PutInFront(RecentSearches(session), Strip(q),
                                 RecentSearches(session'))
      ]_vars

\* the list is full and the query just searched for stands at its front
C13_Witness ==
    /\ Len(RecentSearches(session)) = 5
    /\ response.kind = "render"
    /\ response.template = "results.html"
    /\ response.query = RecentSearches(session)[1]
    /\ response.recent_searches = RecentSearches(session)

====
